---- MODULE Spec2Model ----
(***************************************************************************)
(* ugcs: the access-token provider and the bucket of the micro Google      *)
(* Cloud Storage CLI (src/ugcs.py).  Several processes (CLI invocations)   *)
(* of one service account share the token cache file                       *)
(* <cache>/ugcs/<account>.token.                                           *)
(* Spec: request_token() statement by statement, so that the persistence   *)
(* sequences of different processes interleave.                            *)
(* SpecJwt: the signed assertion of a token request.                       *)
(* SpecBucket: the bucket operations of one process against the storage    *)
(* service.                                                                *)
(***************************************************************************)
EXTENDS Integers, Sequences, FiniteSets, TLC

\* ------------------------------------------------------------------ bounds
MaxTime == 3        \* the clock runs over 0..MaxTime
MaxIssued == 2      \* tokens the token endpoint hands out during a run

\* ------------------------------------------------------- program constants
SafetyMargin == 3   \* time.time() + 3 >= expires_at
DefaultExpire == 60 \* __init__(..., expire=60, ...)

Procs == {1, 2}     \* the processes (invocations) of the one account

None == [None |-> TRUE]

\* Lifetimes the token endpoint reports: one inside the safety margin, one
\* beyond it.
ExpiresIns == {2, 5}

\* --------------------------------------------------------------- JSON text
\* A text is a sequence of lexical chunks: "{", one chunk per member, "}".
\* A prefix of a serialisation is a partially written text.
Open == [k |-> "{", v |-> 0]
Close == [k |-> "}", v |-> 0]

\* Order in which members are emitted (dict insertion order: the members
\* of the response, then the expires_at the provider adds).
KeyOrder ==
    <<"access_token", "expires_in", "token_type", "expires_at",
      "client_email", "private_key", "private_key_id", "token_uri">>

RECURSIVE Members(_, _)
Members(obj, i) ==
    IF i > Len(KeyOrder) THEN <<>>
    ELSE IF KeyOrder[i] \in DOMAIN obj
         THEN <<[k |-> KeyOrder[i], v |-> obj[KeyOrder[i]]]>> \o Members(obj, i + 1)
         ELSE Members(obj, i + 1)

\* json.dump / json.dumps of a dict with at least one member
JsonDump(obj) == <<Open>> \o Members(obj, 1) \o <<Close>>

\* does json.load / json.loads accept the text?
JsonValid(text) ==
    /\ Len(text) >= 3
    /\ text[1] = Open
    /\ text[Len(text)] = Close
    /\ \A i \in 2..(Len(text) - 1) : text[i].k \notin {"{", "}"}

\* json.load / json.loads of an accepted text
JsonLoad(text) ==
    LET idx == 2..(Len(text) - 1)
    IN  [key \in {text[i].k : i \in idx} |->
            text[CHOOSE i \in idx : text[i].k = key].v]

\* ------------------------------------------------------------- file system
NoFile == [exists |-> FALSE, data |-> <<>>]
File(text) == [exists |-> TRUE, data |-> text]

CacheDir == "cache/ugcs"
TempDir == "tmp"
HomeDir == "home"

Account == "acct@project"
ServiceAccountFile == "service-account.json"

\* _xdg_cache_home() / "ugcs" / (account + ".token")
CachedTokenPath(account) == [dir |-> CacheDir, name |-> <<account, ".token">>]

TempFileNameShared(p) == [dir |-> TempDir, name |-> <<"tmp", 0>>]

TempFileNameInPlace(p) == CachedTokenPath(Account)

\* tempfile.NamedTemporaryFile("w", delete=False): no dir argument, so a
\* fresh name in the system temporary directory, unique per open file.
TempFileName(p) == [dir |-> TempDir, name |-> <<"tmp", p>>]

\* Path(json_obj) for a string naming a file
PathOf(name) == [dir |-> HomeDir, name |-> <<name, "">>]

Paths ==
    {CachedTokenPath(Account), PathOf(ServiceAccountFile)}
        \cup {TempFileName(p) : p \in Procs}

\* open(name, "w"): create or truncate
Create(files, name) == [files EXCEPT ![name] = File(<<>>)]

\* the buffered text reaches the file
WriteOut(files, name, text) == [files EXCEPT ![name] = File(text)]

\* os.unlink(name)
Unlink(files, name) == [files EXCEPT ![name] = NoFile]

\* os.replace(src, dst): dst atomically becomes the file src was
OsReplace(files, src, dst) ==
    IF src = dst THEN files
    ELSE [files EXCEPT ![dst] = files[src], ![src] = NoFile]

\* ------------------------------------------------------------------- state
VARIABLES
    now,            \* time.time(), in whole seconds
    fs,             \* the file system: path -> file
    provider,       \* per process: the AccessTokenProvider's credentials, or None
    cached_token,   \* per process: self.cached_token
    pc,             \* per process: position inside request_token()
    result,         \* per process: outcome of the last constructor or request_token()
    issued,         \* number of tokens the token endpoint has handed out
    call,           \* per process: what the running/last request_token() saw and did
    lastReplace     \* the last successful os.replace onto the cache file

vars == <<now, fs, provider, cached_token, pc, result, issued, call, lastReplace>>

\* outcomes
NoResult == [op |-> "none", kind |-> "none", val |-> None, exc |-> "none"]
Returned(op, val) == [op |-> op, kind |-> "return", val |-> val, exc |-> "none"]
Raised(op, exc) == [op |-> op, kind |-> "raise", val |-> None, exc |-> exc]

\* fresh0: the cached token on entry when its expiry lay beyond the margin,
\* else None; exch: exchanges attempted; tExch: the clock read at line 147
NoCall == [fresh0 |-> None, exch |-> 0, tExch |-> -1]

\* ------------------------------------------------------ credential loading
TokenUrl == "https://oauth2.googleapis.com/token"
AccountTokenUri == "https://token.example/account"

\* the service-account description
ServiceAccount ==
    [client_email |-> Account, private_key |-> "PEM", private_key_id |-> "kid1",
     token_uri |-> AccountTokenUri]

\* a str that is a plain name, not JSON
Str(name) == <<[k |-> name, v |-> 0]>>
NameOf(text) == text[1].k

\* the module object `json`
JsonModule == [module |-> "json"]

\* the three input shapes of the loader, and a Path object
CredentialShapes == {"inline JSON", "file name", "parsed", "Path"}

\* the argument of the loader in each shape
CredentialInput(shape) ==
    CASE shape = "inline JSON" -> [type |-> "str", val |-> JsonDump(ServiceAccount)]
      [] shape = "file name" -> [type |-> "str", val |-> Str(ServiceAccountFile)]
      [] shape = "parsed" -> [type |-> "dict", val |-> ServiceAccount]
      [] shape = "Path" -> [type |-> "Path", val |-> PathOf(ServiceAccountFile)]

\* lines 85-89: a str that does not parse becomes a Path
AsPath(json_obj) ==
    IF json_obj.type = "str" /\ ~JsonValid(json_obj.val)
    THEN [type |-> "Path", val |-> PathOf(NameOf(json_obj.val))]
    ELSE json_obj

\* lines 91-94: the value of j when the constructor is called
ResolveJ(json_obj, files) ==
    LET obj == AsPath(json_obj)
    IN  IF obj.type = "Path" THEN JsonLoad(files[obj.val].data)
        ELSE JsonModule

\* j[...] works on a dict only
Subscriptable(j) == "module" \notin DOMAIN j

\* ------------------------------------------------------------- constructor
ParseError == [ParseError |-> TRUE]

LoadCachedTokenBlind(files, path) == None

\* lines 77-82: the token the constructor loads from the cache file
LoadCachedToken(files, path) ==
    IF files[path].exists
    THEN IF JsonValid(files[path].data) THEN JsonLoad(files[path].data)
         ELSE ParseError
    ELSE None

\* AccessTokenProvider.__init__, entered through `op`
Construct(p, op, account, key, kid, token_url) ==
    LET loaded == LoadCachedToken(fs, CachedTokenPath(account))
    IN  /\ IF loaded = ParseError
           THEN /\ provider' = [provider EXCEPT ![p] = None]
                /\ cached_token' = [cached_token EXCEPT ![p] = None]
                /\ pc' = [pc EXCEPT ![p] = "none"]
                /\ result' = [result EXCEPT ![p] = Raised(op, "JSONDecodeError")]
           ELSE /\ provider' = [provider EXCEPT ![p] =
                        [account |-> account, key |-> key, kid |-> kid,
                         expire |-> DefaultExpire, token_url |-> token_url]]
                /\ cached_token' = [cached_token EXCEPT ![p] = loaded]
                /\ pc' = [pc EXCEPT ![p] = "idle"]
                /\ result' = [result EXCEPT ![p] = Returned(op, loaded)]
        /\ call' = [call EXCEPT ![p] = NoCall]
        /\ UNCHANGED <<now, fs, issued, lastReplace>>

\* AccessTokenProvider.from_service_account_json(json_obj)
FromServiceAccountJson(p, shape) ==
    /\ pc[p] \in {"none", "idle"}
    /\ LET j == ResolveJ(CredentialInput(shape), fs)
       IN  IF Subscriptable(j)
           THEN Construct(p, "from_service_account_json", j["client_email"],
                          j["private_key"], j["private_key_id"], j["token_uri"])
           ELSE /\ provider' = [provider EXCEPT ![p] = None]
                /\ cached_token' = [cached_token EXCEPT ![p] = None]
                /\ pc' = [pc EXCEPT ![p] = "none"]
                /\ result' = [result EXCEPT ![p] =
                        Raised("from_service_account_json", "TypeError")]
                /\ call' = [call EXCEPT ![p] = NoCall]
                /\ UNCHANGED <<now, fs, issued, lastReplace>>

\* ----------------------------------------------------------- request_token
HasExpiry(tok) == "expires_at" \in DOMAIN tok

ExpiredNoMargin(tok, t) == t >= tok["expires_at"]

ExpiredInverted(tok, t) == t + SafetyMargin <= tok["expires_at"]

\* line 142: time.time() + 3 >= self.cached_token["expires_at"]
Expired(tok, t) == t + SafetyMargin >= tok["expires_at"]

\* lines 142-143: self.cached_token after the expiry check
AfterExpiryCheck(tok, t) ==
    IF tok # None /\ Expired(tok, t) THEN None ELSE tok

ExpiresAtNoClock(response, t) == response["expires_in"]

\* line 147: expires_in + int(time.time())
ExpiresAt(response, t) == response["expires_in"] + t

\* responses of the token endpoint to one exchange: {access_token,
\* token_type, expires_in}, and one that reports no lifetime
Responses ==
    { [access_token |-> issued + 1, expires_in |-> e, token_type |-> "Bearer"] :
        e \in ExpiresIns }
    \cup { [access_token |-> issued + 1, token_type |-> "Bearer"] }

OnFailureKeepTemp(files, name) == files

OnFailureUnlinkCache(files, name) == Unlink(Unlink(files, name), CachedTokenPath(Account))

\* lines 156-157: except: os.unlink(f.name)
OnFailure(files, name) == Unlink(files, name)

Finish(p, outcome) ==
    /\ pc' = [pc EXCEPT ![p] = "idle"]
    /\ result' = [result EXCEPT ![p] = outcome]

\* the call raises out of the try block: lines 156-158
FailPersist(p, exc) ==
    /\ fs' = OnFailure(fs, TempFileName(p))
    /\ Finish(p, Raised("request_token", exc))
    /\ UNCHANGED <<now, provider, cached_token, issued, call, lastReplace>>

\* lines 142-145 and, for a token still valid, line 160
Enter(p) ==
    /\ pc[p] = "idle"
    /\ LET tok == cached_token[p]
           seen == [fresh0 |-> IF tok # None /\ HasExpiry(tok)
                                    /\ tok["expires_at"] > now + 3
                                 THEN tok ELSE None,
                    exch |-> 0, tExch |-> -1]
       IN  /\ call' = [call EXCEPT ![p] = seen]
           /\ IF tok # None /\ ~HasExpiry(tok)
              THEN /\ Finish(p, Raised("request_token", "KeyError"))
                   /\ UNCHANGED cached_token
              ELSE LET kept == AfterExpiryCheck(tok, now)
                   IN  /\ cached_token' = [cached_token EXCEPT ![p] = kept]
                       /\ IF kept = None
                          THEN /\ pc' = [pc EXCEPT ![p] = "exchange"]
                               /\ result' = [result EXCEPT ![p] = NoResult]
                          ELSE Finish(p, Returned("request_token", kept))
    /\ UNCHANGED <<now, fs, provider, issued, lastReplace>>

\* the body of an HTTP error response
ErrorBody == [error |-> "invalid_grant"]

AssignResponseUnchecked(old, ok, response) == response

\* line 146: self.cached_token = self._request_new_token(); the assignment
\* happens only when the call returns
AssignResponse(old, ok, response) == IF ok THEN response ELSE old

\* line 146, _request_new_token raises: urlopen fails (HTTPError/URLError)
ExchangeFails(p) ==
    /\ pc[p] = "exchange"
    /\ call' = [call EXCEPT ![p].exch = @ + 1]
    /\ cached_token' = [cached_token EXCEPT ![p] =
            AssignResponse(cached_token[p], FALSE, ErrorBody)]
    /\ Finish(p, Raised("request_token", "HTTPError"))
    /\ UNCHANGED <<now, fs, provider, issued, lastReplace>>

\* lines 146-148: the response arrives, expires_at is added and the
\* temporary file is created (`created`: whether the creation succeeds)
ExchangeReturns(p, response, created) ==
    /\ pc[p] = "exchange"
    /\ issued < MaxIssued
    /\ issued' = issued + 1
    /\ IF "expires_in" \in DOMAIN response
       THEN /\ cached_token' = [cached_token EXCEPT ![p] =
                    LET tok == AssignResponse(cached_token[p], TRUE, response)
                    IN  [key \in DOMAIN tok \cup {"expires_at"} |->
                            IF key = "expires_at" THEN ExpiresAt(tok, now)
                            ELSE tok[key]]]
            /\ call' = [call EXCEPT ![p].exch = @ + 1, ![p].tExch = now]
            /\ IF created
               THEN /\ fs' = Create(fs, TempFileName(p))
                    /\ pc' = [pc EXCEPT ![p] = "dump"]
                    /\ UNCHANGED result
               ELSE /\ Finish(p, Raised("request_token", "OSError"))
                    /\ UNCHANGED fs
       ELSE /\ cached_token' = [cached_token EXCEPT ![p] =
                    AssignResponse(cached_token[p], TRUE, response)]
            /\ call' = [call EXCEPT ![p].exch = @ + 1]
            /\ Finish(p, Raised("request_token", "KeyError"))
            /\ UNCHANGED fs
    /\ UNCHANGED <<now, provider, lastReplace>>

\* line 150: json.dump(self.cached_token, f) into the file's buffer
JsonDumpStep(p, ok) ==
    /\ pc[p] = "dump"
    /\ IF ok
       THEN /\ pc' = [pc EXCEPT ![p] = "flush"]
            /\ UNCHANGED <<now, fs, provider, cached_token, result, issued, call,
                           lastReplace>>
       ELSE FailPersist(p, "OSError")

\* line 151: f.flush(); a failing flush may leave a prefix in the file
\* before the handler unlinks it
Flush(p, ok) ==
    /\ pc[p] = "flush"
    /\ IF ok
       THEN /\ fs' = WriteOut(fs, TempFileName(p), JsonDump(cached_token[p]))
            /\ pc' = [pc EXCEPT ![p] = "fsync"]
            /\ UNCHANGED <<now, provider, cached_token, result, issued, call,
                           lastReplace>>
       ELSE FailPersist(p, "OSError")

\* line 152: os.fsync(f.fileno())
Fsync(p, ok) ==
    /\ pc[p] = "fsync"
    /\ IF ok
       THEN /\ pc' = [pc EXCEPT ![p] = "replace"]
            /\ UNCHANGED <<now, fs, provider, cached_token, result, issued, call,
                           lastReplace>>
       ELSE FailPersist(p, "OSError")

\* lines 155 and 160: os.replace(f.name, cached_token_path), then return.
\* The replace fails when the two directories are on different file systems.
Replace(p, ok) ==
    /\ pc[p] = "replace"
    /\ IF ok
       THEN /\ fs' = OsReplace(fs, TempFileName(p),
                               CachedTokenPath(provider[p].account))
            /\ lastReplace' = [by |-> p, tok |-> cached_token[p]]
            /\ Finish(p, Returned("request_token", cached_token[p]))
            /\ UNCHANGED <<now, provider, cached_token, issued, call>>
       ELSE FailPersist(p, "OSError")

\* a second passes
Tick ==
    /\ now < MaxTime
    /\ now' = now + 1
    /\ UNCHANGED <<fs, provider, cached_token, pc, result, issued, call, lastReplace>>

\* ------------------------------------------------------- further state
VARIABLES
    jwt,            \* the last token request built by _request_new_token
    objects,        \* the storage service: the objects it stores
    sent,           \* the storage request the last bucket operation sent
    reply,          \* outcome of the last bucket operation
    latest          \* what the put and delete calls that returned left behind

\* the token provider's steps leave the rest alone
Elsewhere == UNCHANGED <<jwt, objects, sent, reply, latest>>

allVars == <<vars, jwt, objects, sent, reply, latest>>

\* nothing built, stored, sent or answered yet
NoJwt ==
    [by |-> 0, url |-> "", header |-> None, claim |-> None,
     payload |-> <<>>, sig |-> <<>>, assertion |-> <<>>]
NoRequest == [op |-> "none"]
NoReply ==
    [op |-> "none", path |-> <<>>, kind |-> "none", val |-> None, exc |-> "none",
     status |-> 0]

Untouched ==
    /\ jwt = NoJwt
    /\ objects = {}
    /\ sent = NoRequest
    /\ reply = NoReply
    /\ latest = {}

\* ------------------------------------------------------------ specification
\* a token of an earlier invocation, as its provider stored it
StoredToken(e) ==
    [access_token |-> 0, expires_in |-> e, token_type |-> "Bearer", expires_at |-> e]

\* what the cache file may hold when the first process starts: nothing, the
\* token of an earlier invocation, a truncated text, a record without
\* expires_at
InitialCacheFiles ==
    { NoFile,
      File(JsonDump(StoredToken(5))),
      File(SubSeq(JsonDump(StoredToken(5)), 1, 3)),
      File(JsonDump([access_token |-> 0, token_type |-> "Bearer"])) }

NoReplace == [by |-> 0, tok |-> None]

Init ==
    /\ now = 0
    /\ \E cache \in InitialCacheFiles :
         fs = [path \in Paths |->
                 IF path = CachedTokenPath(Account) THEN cache
                 ELSE IF path = PathOf(ServiceAccountFile)
                      THEN File(JsonDump(ServiceAccount))
                      ELSE NoFile]
    /\ provider = [p \in Procs |-> None]
    /\ cached_token = [p \in Procs |-> None]
    /\ pc = [p \in Procs |-> "none"]
    /\ result = [p \in Procs |-> NoResult]
    /\ issued = 0
    /\ call = [p \in Procs |-> NoCall]
    /\ lastReplace = NoReplace
    /\ Untouched

Next ==
    \/ Tick /\ Elsewhere
    \/ \E p \in Procs : \E shape \in CredentialShapes :
            FromServiceAccountJson(p, shape) /\ Elsewhere
    \/ \E p \in Procs : Enter(p) /\ Elsewhere
    \/ \E p \in Procs : ExchangeFails(p) /\ Elsewhere
    \/ \E p \in Procs : \E response \in Responses : \E created \in BOOLEAN :
            ExchangeReturns(p, response, created) /\ Elsewhere
    \/ \E p \in Procs : \E ok \in BOOLEAN : JsonDumpStep(p, ok) /\ Elsewhere
    \/ \E p \in Procs : \E ok \in BOOLEAN : Flush(p, ok) /\ Elsewhere
    \/ \E p \in Procs : \E ok \in BOOLEAN : Fsync(p, ok) /\ Elsewhere
    \/ \E p \in Procs : \E ok \in BOOLEAN : Replace(p, ok) /\ Elsewhere

Spec == Init /\ [][Next]_allVars

\* -------------------------------------------------------- assertion signer
MaxBytes == 3       \* longest byte string fed to the base64 encoder

Bytes == {0, 255}

RECURSIVE ByteStringsOfLen(_)
ByteStringsOfLen(n) ==
    IF n = 0 THEN {<<>>}
    ELSE {<<b>> \o rest : b \in Bytes, rest \in ByteStringsOfLen(n - 1)}

\* the byte strings json.dumps(...).encode("utf-8") and openssl can yield
ByteStrings == UNION {ByteStringsOfLen(n) : n \in 1..MaxBytes}

\* the alphabet of base64.urlsafe_b64encode
UrlsafeAlphabet ==
    <<"A", "B", "C", "D", "E", "F", "G", "H", "I", "J", "K", "L", "M",
      "N", "O", "P", "Q", "R", "S", "T", "U", "V", "W", "X", "Y", "Z",
      "a", "b", "c", "d", "e", "f", "g", "h", "i", "j", "k", "l", "m",
      "n", "o", "p", "q", "r", "s", "t", "u", "v", "w", "x", "y", "z",
      "0", "1", "2", "3", "4", "5", "6", "7", "8", "9", "-", "_">>

Digit(sextet) == UrlsafeAlphabet[sextet + 1]

\* base64.urlsafe_b64encode(s).decode(): three bytes give four digits; a
\* last group of one or two bytes is filled up with "="
RECURSIVE UrlsafeB64encode(_)
UrlsafeB64encode(s) ==
    IF Len(s) = 0 THEN <<>>
    ELSE IF Len(s) = 1
         THEN <<Digit(s[1] \div 4), Digit((s[1] % 4) * 16), "=", "=">>
    ELSE IF Len(s) = 2
         THEN <<Digit(s[1] \div 4),
                Digit((s[1] % 4) * 16 + s[2] \div 16),
                Digit((s[2] % 16) * 4), "=">>
    ELSE <<Digit(s[1] \div 4),
           Digit((s[1] % 4) * 16 + s[2] \div 16),
           Digit((s[2] % 16) * 4 + s[3] \div 64),
           Digit(s[3] % 64)>> \o UrlsafeB64encode(SubSeq(s, 4, Len(s)))

\* lines 104-106: jwt_header
JwtHeader(self) ==
    IF self.kid # "no kid"
    THEN [alg |-> "RS256", typ |-> "JWT", kid |-> self.kid]
    ELSE [alg |-> "RS256", typ |-> "JWT"]

\* lines 107-113: jwt_claim at unix_time
JwtClaim(self, unix_time) ==
    [iss |-> self.account,
     scope |-> "https://www.googleapis.com/auth/devstorage.read_write",
     aud |-> "https://oauth2.googleapis.com/token",
     iat |-> unix_time,
     exp |-> unix_time + self.expire]

\* lines 115-118: the assertion, from the serialised header and claims
\* and the signature openssl returns
CreateJwt(header_bytes, claim_bytes, sig_bytes) ==
    LET payload == UrlsafeB64encode(header_bytes) \o <<".">>
                       \o UrlsafeB64encode(claim_bytes)
        sig == UrlsafeB64encode(sig_bytes)
    IN  [payload |-> payload, sig |-> sig, assertion |-> payload \o <<".">> \o sig]

\* _request_new_token up to the POST: the request goes to self.token_url.
\* The serialised header and claims and the signature are byte strings;
\* a behaviour builds one request.
RequestNewToken(p) ==
    /\ provider[p] # None
    /\ pc[p] = "exchange"
    /\ jwt = NoJwt
    /\ \E header_bytes, claim_bytes, sig_bytes \in ByteStrings :
          LET made == CreateJwt(header_bytes, claim_bytes, sig_bytes)
          IN  jwt' = [by |-> p, url |-> provider[p].token_url,
                      header |-> JwtHeader(provider[p]),
                      claim |-> JwtClaim(provider[p], now),
                      payload |-> made.payload, sig |-> made.sig,
                      assertion |-> made.assertion]
    /\ UNCHANGED <<vars, objects, sent, reply, latest>>

\* providers as AccessTokenProvider(account, key, kid, expire, token_url)
\* builds them
ProviderConfigs ==
    { [account |-> Account, key |-> "PEM", kid |-> kid, expire |-> expire,
       token_url |-> token_url] :
        kid \in {"no kid", "kid1"}, expire \in {DefaultExpire, 30},
        token_url \in {TokenUrl, AccountTokenUri} }

InitJwt ==
    /\ now = 0
    /\ fs = [path \in Paths |->
                IF path = PathOf(ServiceAccountFile)
                THEN File(JsonDump(ServiceAccount)) ELSE NoFile]
    /\ \E self \in ProviderConfigs :
          provider = [p \in Procs |-> IF p = 1 THEN self ELSE None]
    /\ cached_token = [p \in Procs |-> None]
    /\ pc = [p \in Procs |-> IF p = 1 THEN "exchange" ELSE "none"]
    /\ result = [p \in Procs |-> NoResult]
    /\ issued = 0
    /\ call = [p \in Procs |-> NoCall]
    /\ lastReplace = NoReplace
    /\ Untouched

NextJwt ==
    \/ Tick /\ Elsewhere
    \/ \E p \in Procs : RequestNewToken(p)

SpecJwt == InitJwt /\ [][NextJwt]_allVars

\* ------------------------------------------------------------ URL escaping
\* characters of object names that are not always safe (letters and
\* digits are)
Reserved == {"/", " ", "%", "+"}

\* the percent escape of a reserved character
Escape(c) ==
    CASE c = "/" -> <<"%", "2", "F">>
      [] c = " " -> <<"%", "2", "0">>
      [] c = "%" -> <<"%", "2", "5">>
      [] c = "+" -> <<"%", "2", "B">>

QuoteCharDefaultSafe(c) == IF c \in Reserved \ {"/"} THEN Escape(c) ELSE <<c>>

QuoteCharKeepPercent(c) == IF c \in Reserved \ {"%"} THEN Escape(c) ELSE <<c>>

\* quote(c, safe=""): only the always-safe characters stay as they are
QuoteChar(c) == IF c \in Reserved THEN Escape(c) ELSE <<c>>

\* quote(path, safe="")
RECURSIVE Quote(_)
Quote(path) ==
    IF path = <<>> THEN <<>> ELSE QuoteChar(Head(path)) \o Quote(Tail(path))

QuotePlusCharKeepPlus(c) == IF c \in {" ", "+"} THEN <<"+">> ELSE QuoteChar(c)

\* quote_plus, which urlencode applies to each value: a space becomes "+"
QuotePlusChar(c) == IF c = " " THEN <<"+">> ELSE QuoteChar(c)

RECURSIVE QuotePlus(_)
QuotePlus(value) ==
    IF value = <<>> THEN <<>>
    ELSE QuotePlusChar(Head(value)) \o QuotePlus(Tail(value))

\* urlencode(query): the record of escaped values, one per key
Urlencode(query) == [key \in DOMAIN query |-> QuotePlus(query[key])]

\* ---------------------------------------------------------- storage service
\* percent-decoding of a path segment
RECURSIVE Unquote(_)
Unquote(text) ==
    IF text = <<>> THEN <<>>
    ELSE IF /\ Head(text) = "%"
            /\ Len(text) >= 3
            /\ \E c \in Reserved : Escape(c) = SubSeq(text, 1, 3)
         THEN <<CHOOSE c \in Reserved : Escape(c) = SubSeq(text, 1, 3)>>
                  \o Unquote(SubSeq(text, 4, Len(text)))
         ELSE <<Head(text)>> \o Unquote(Tail(text))

\* decoding of a query value: "+" is a space
Unplus(text) == [i \in DOMAIN text |-> IF text[i] = "+" THEN " " ELSE text[i]]
UnquotePlus(text) == Unquote(Unplus(text))

\* a path segment holds no "/" of its own
OneSegment(segment) ==
    /\ segment # <<>>
    /\ \A i \in DOMAIN segment : segment[i] # "/"

\* does the object name start with the prefix?
StartsWith(name, prefix) ==
    /\ Len(prefix) <= Len(name)
    /\ SubSeq(name, 1, Len(prefix)) = prefix

\* the object-metadata record of a stored object, as JSON text
MetadataText(object) ==
    <<Open,
      [k |-> "name", v |-> object.name],
      [k |-> "contentType", v |-> object.contentType],
      [k |-> "size", v |-> Len(object.data)],
      Close>>

\* the listing of the objects given in some order, as JSON text: no
\* `items` member when there is none
ListingText(listed) ==
    IF listed = <<>>
    THEN <<Open, [k |-> "kind", v |-> "storage#objects"], Close>>
    ELSE <<Open, [k |-> "kind", v |-> "storage#objects"],
           [k |-> "items", array |-> TRUE,
            v |-> [i \in DOMAIN listed |-> MetadataText(listed[i])]],
           Close>>

\* the sequences that hold each element of a set once
Orders(set) ==
    {order \in [1..Cardinality(set) -> set] :
        \A i, j \in DOMAIN order : order[i] = order[j] => i = j}

\* content codings of a response
GzipMagic == "1f8b"
Gzip(body) == <<GzipMagic>> \o body

\* a response: status, Content-Encoding, body
Response(status, zipped, body) ==
    [status |-> status,
     encoding |-> IF zipped THEN "gzip" ELSE "identity",
     body |-> IF zipped THEN Gzip(body) ELSE body]

NotFound == [status |-> 404, encoding |-> "identity", body |-> <<>>]

\* the stored object a request's path segment names, if any
Named(stored, segment) ==
    {object \in stored : OneSegment(segment) /\ object.name = Unquote(segment)}

StorageUrl == "https://storage.googleapis.com/storage/v1"
UploadUrl == "https://storage.googleapis.com/upload/storage/v1"

\* urllib's Request.get_method(): the method set on the request, else POST
\* with a body and GET without
GetMethod(request) ==
    IF request.method # "" THEN request.method
    ELSE IF "data" \in DOMAIN request THEN "POST" ELSE "GET"

\* the service: what it stores after the request, and its response.
\* `zipped`: whether it compresses the body; `order`: the order it lists in
Serve(stored, request, zipped, order) ==
    LET url == request.url
        method == GetMethod(request)
        named == Named(stored, url.object)
    IN  CASE url.api = UploadUrl /\ method = "POST" ->
                LET object == [name |-> UnquotePlus(url.query.name),
                               data |-> request.data,
                               contentType |-> request.headers["Content-Type"]]
                IN  [stored |-> {o \in stored : o.name # object.name} \cup {object},
                     response |-> Response(200, zipped, MetadataText(object))]
          [] url.api = StorageUrl /\ method = "GET" /\ url.object = <<>> ->
                LET prefix == IF "prefix" \in DOMAIN url.query
                              THEN UnquotePlus(url.query.prefix) ELSE <<>>
                    listed == SelectSeq(order, LAMBDA o : StartsWith(o.name, prefix))
                IN  [stored |-> stored,
                     response |-> Response(200, zipped, ListingText(listed))]
          [] url.api = StorageUrl /\ method = "GET" /\ named # {} ->
                LET object == CHOOSE o \in named : TRUE
                IN  [stored |-> stored,
                     response |-> IF "alt" \in DOMAIN url.query
                                  THEN Response(200, zipped, object.data)
                                  ELSE Response(200, zipped, MetadataText(object))]
          [] url.api = StorageUrl /\ method = "DELETE" /\ named # {} ->
                [stored |-> stored \ named,
                 response |-> [status |-> 204, encoding |-> "identity", body |-> <<>>]]
          [] OTHER -> [stored |-> stored, response |-> NotFound]

\* ------------------------------------------------------------------ Bucket
BucketName == "bucket"

\* json.loads of a response body: members that are arrays are parsed
\* element by element
RECURSIVE JsonLoads(_)
JsonLoads(text) ==
    LET idx == 2..(Len(text) - 1)
    IN  [key \in {text[i].k : i \in idx} |->
            LET chunk == text[CHOOSE i \in idx : text[i].k = key]
            IN  IF "array" \in DOMAIN chunk
                THEN [n \in DOMAIN chunk.v |-> JsonLoads(chunk.v[n])]
                ELSE chunk.v]

\* gzip.decompress
Gunzip(body) == Tail(body)

DecodedResponseRaw(response) == response.body

\* lines 56-61: the body, decompressed when Content-Encoding is gzip
DecodedResponse(response) ==
    IF response.encoding = "gzip" THEN Gunzip(response.body) ELSE response.body

AuthorizationBare(token) == <<token["access_token"]>>

\* line 176: token["token_type"] + " " + token["access_token"]
Authorization(token) == <<token["token_type"], " ", token["access_token"]>>

\* lines 175-180: Request(url, headers=headers)
AuthorizedRequest(url, token) ==
    [url |-> url,
     method |-> "",
     headers |-> ("Authorization" :> Authorization(token))
                     @@ ("Accept-Encoding" :> "gzip, identity")]

\* the URLs of the operations
ListUrl(prefix) ==
    [api |-> StorageUrl, bucket |-> BucketName, object |-> <<>>,
     query |-> IF prefix # <<>> THEN Urlencode([prefix |-> prefix]) ELSE <<>>]
PutUrl(path) ==
    [api |-> UploadUrl, bucket |-> BucketName, object |-> <<>>,
     query |-> Urlencode([uploadType |-> <<"m", "e", "d", "i", "a">>, name |-> path])]
GetUrl(path) ==
    [api |-> StorageUrl, bucket |-> BucketName, object |-> Quote(path),
     query |-> [alt |-> "media"]]
ObjectUrl(path) ==
    [api |-> StorageUrl, bucket |-> BucketName, object |-> Quote(path),
     query |-> <<>>]

\* lines 182-187
ListRequest(prefix, token) == AuthorizedRequest(ListUrl(prefix), token)

\* lines 192-205
PutRequest(path, data, content_type, token) ==
    LET request == AuthorizedRequest(PutUrl(path), token)
    IN  [url |-> request.url,
         method |-> request.method,
         headers |-> request.headers @@ ("Content-Type" :> content_type)
                         @@ ("Content-Transfer-Encoding" :> "binary"),
         data |-> data]

\* lines 211-213
GetRequest(path, token) == AuthorizedRequest(GetUrl(path), token)

\* lines 219-221
GetMetadataRequest(path, token) == AuthorizedRequest(ObjectUrl(path), token)

\* lines 227-230
DeleteRequest(path, token) ==
    [AuthorizedRequest(ObjectUrl(path), token) EXCEPT !.method = "DELETE"]

\* what the exchange and the cache write of one request_token() call can
\* do: nothing when the cached token is still good; else the endpoint
\* fails, or answers {access_token, token_type, expires_in} and the write
\* fails or succeeds
Exchanges(p) ==
    IF cached_token[p] # None
       /\ (~HasExpiry(cached_token[p]) \/ ~Expired(cached_token[p], now))
    THEN {<<"none", ErrorBody>>}
    ELSE {<<"HTTPError", ErrorBody>>}
         \cup (IF issued < MaxIssued
               THEN {<<how, response>> \in {"OSError", "ok"} \X Responses :
                        "expires_in" \in DOMAIN response}
               ELSE {})

\* request_token() (lines 141-160) run from entry to exit: the cached
\* token and the files it leaves, and its outcome
RequestToken(p, how, response) ==
    LET tok == cached_token[p]
        tmp == TempFileName(p)
        kept == AfterExpiryCheck(tok, now)
        got == AssignResponse(kept, TRUE, response)
        new == [key \in DOMAIN got \cup {"expires_at"} |->
                   IF key = "expires_at" THEN ExpiresAt(got, now) ELSE got[key]]
        written == WriteOut(Create(fs, tmp), tmp, JsonDump(new))
    IN  IF tok # None /\ ~HasExpiry(tok)
        THEN [cached |-> tok, files |-> fs, exch |-> 0, got |-> 0,
              outcome |-> Raised("request_token", "KeyError")]
        ELSE IF kept # None
        THEN [cached |-> kept, files |-> fs, exch |-> 0, got |-> 0,
              outcome |-> Returned("request_token", kept)]
        ELSE IF how = "HTTPError"
        THEN [cached |-> AssignResponse(kept, FALSE, response), files |-> fs,
              exch |-> 1, got |-> 0,
              outcome |-> Raised("request_token", "HTTPError")]
        ELSE IF "expires_in" \notin DOMAIN response
        THEN [cached |-> got, files |-> fs, exch |-> 1, got |-> 1,
              outcome |-> Raised("request_token", "KeyError")]
        ELSE IF how = "OSError"
        THEN [cached |-> new, files |-> OnFailure(written, tmp),
              exch |-> 1, got |-> 1,
              outcome |-> Raised("request_token", "OSError")]
        ELSE [cached |-> new,
              files |-> OsReplace(written, tmp, CachedTokenPath(provider[p].account)),
              exch |-> 1, got |-> 1,
              outcome |-> Returned("request_token", new)]

\* the request of an operation, built with the token of line 173
RequestOf(op, args, token) ==
    CASE op = "list" -> ListRequest(args.path, token)
      [] op = "put" -> PutRequest(args.path, args.data, args.content_type, token)
      [] op = "get" -> GetRequest(args.path, token)
      [] op = "get_metadata" -> GetMetadataRequest(args.path, token)
      [] op = "delete" -> DeleteRequest(args.path, token)

\* what an operation returns, given the decoded body of the response
ReturnOf(op, body) ==
    CASE op \in {"list", "put", "get_metadata"} -> JsonLoads(body)
      [] op = "get" -> body
      [] op = "delete" -> None

\* what the put and delete calls that returned have left behind
Left(op, args, kept) ==
    CASE op = "put" ->
            {o \in kept : o.name # args.path}
                \cup {[name |-> args.path, data |-> args.data,
                       contentType |-> args.content_type]}
      [] op = "delete" -> {o \in kept : o.name # args.path}
      [] OTHER -> kept

\* A bucket operation of process p, from its call to its return or raise:
\* the token (line 173), the request built with it, the service's answer,
\* the value made of the decoded body.
Perform(p, op, args, exchange, zipped, order) ==
    /\ provider[p] # None
    /\ pc[p] = "idle"
    /\ \E rt \in {RequestToken(p, exchange[1], exchange[2])} :
        /\ cached_token' = [cached_token EXCEPT ![p] = rt.cached]
        /\ fs' = rt.files
        /\ issued' = issued + rt.got
        /\ call' = [call EXCEPT ![p] =
                [fresh0 |-> IF /\ cached_token[p] # None
                               /\ HasExpiry(cached_token[p])
                               /\ cached_token[p]["expires_at"] > now + 3
                            THEN cached_token[p] ELSE None,
                 exch |-> rt.exch,
                 tExch |-> IF rt.got = 1 /\ HasExpiry(rt.cached) THEN now ELSE -1]]
        /\ result' = [result EXCEPT ![p] = rt.outcome]
        /\ lastReplace' = IF rt.exch = 1 /\ rt.outcome.kind = "return"
                          THEN [by |-> p, tok |-> rt.cached] ELSE lastReplace
        /\ UNCHANGED <<now, provider, pc, jwt>>
        /\ IF rt.outcome.kind = "raise"
           THEN /\ sent' = NoRequest
                /\ reply' = [op |-> op, path |-> args.path, kind |-> "raise",
                             val |-> None, exc |-> rt.outcome.exc, status |-> 0]
                /\ UNCHANGED <<objects, latest>>
           ELSE \E request \in {RequestOf(op, args, rt.outcome.val)} :
                \E served \in {Serve(objects, request, zipped, order)} :
                    /\ sent' = request
                    /\ objects' = served.stored
                    /\ IF served.response.status >= 400
                       THEN /\ reply' = [op |-> op, path |-> args.path, kind |-> "raise",
                                         val |-> None, exc |-> "HTTPError",
                                         status |-> served.response.status]
                            /\ UNCHANGED latest
                       ELSE /\ reply' = [op |-> op, path |-> args.path, kind |-> "return",
                                         val |-> ReturnOf(op, DecodedResponse(served.response)),
                                         exc |-> "none",
                                         status |-> served.response.status]
                            /\ latest' = Left(op, args, latest)

\* Bucket.list(prefix), lines 182-189
List(p, prefix, exchange, zipped, order) ==
    Perform(p, "list", [path |-> prefix], exchange, zipped, order)

\* Bucket.put(path, data, content_type), lines 191-208
Put(p, path, data, content_type, exchange, zipped, order) ==
    Perform(p, "put", [path |-> path, data |-> data, content_type |-> content_type],
            exchange, zipped, order)

\* Bucket.get(path), lines 210-216
Get(p, path, exchange, zipped, order) ==
    Perform(p, "get", [path |-> path], exchange, zipped, order)

\* Bucket.get_metadata(path), lines 218-224
GetMetadata(p, path, exchange, zipped, order) ==
    Perform(p, "get_metadata", [path |-> path], exchange, zipped, order)

\* Bucket.delete(path), lines 226-232
Delete(p, path, exchange, zipped, order) ==
    Perform(p, "delete", [path |-> path], exchange, zipped, order)

\* the arguments the operations are called with
\* a name with a "/", a space and a "+", and the name that spells out
\* the escapes of the first
ObjectNames ==
    {<<"d", "/", " ", "+">>,
     <<"d", "%", "2", "F", "%", "2", "0", "%", "2", "B">>}
Prefixes == {<<>>, <<"d">>, <<"d", "/">>}
Uploads ==
    {[data |-> <<7>>, content_type |-> "text/plain"],
     [data |-> <<8, 9>>, content_type |-> "text/html"]}

\* a bucket on the provider of process 1, built from the service-account
\* file while the cache file holds the token of an earlier invocation
InitBucket ==
    /\ now = 0
    /\ fs = [path \in Paths |->
                IF path = CachedTokenPath(Account) THEN File(JsonDump(StoredToken(5)))
                ELSE IF path = PathOf(ServiceAccountFile)
                     THEN File(JsonDump(ServiceAccount))
                     ELSE NoFile]
    /\ provider = [p \in Procs |->
            IF p = 1
            THEN [account |-> ServiceAccount["client_email"],
                  key |-> ServiceAccount["private_key"],
                  kid |-> ServiceAccount["private_key_id"],
                  expire |-> DefaultExpire,
                  token_url |-> ServiceAccount["token_uri"]]
            ELSE None]
    /\ cached_token = [p \in Procs |->
            IF p = 1 THEN LoadCachedToken(fs, CachedTokenPath(Account)) ELSE None]
    /\ pc = [p \in Procs |-> IF p = 1 THEN "idle" ELSE "none"]
    /\ result = [p \in Procs |-> NoResult]
    /\ issued = 0
    /\ call = [p \in Procs |-> NoCall]
    /\ lastReplace = NoReplace
    /\ Untouched

NextBucket ==
    \/ Tick /\ Elsewhere
    \/ \E p \in Procs : \E order \in Orders(objects) :
       \E exchange \in Exchanges(p) : \E prefix \in Prefixes : \E zipped \in BOOLEAN :
            List(p, prefix, exchange, zipped, order)
    \/ \E p \in Procs : \E exchange \in Exchanges(p) : \E path \in ObjectNames :
       \E upload \in Uploads : \E zipped \in BOOLEAN :
            Put(p, path, upload.data, upload.content_type, exchange, zipped, <<>>)
    \/ \E p \in Procs : \E exchange \in Exchanges(p) : \E path \in ObjectNames :
       \E zipped \in BOOLEAN :
            Get(p, path, exchange, zipped, <<>>)
    \/ \E p \in Procs : \E exchange \in Exchanges(p) : \E path \in ObjectNames :
       \E zipped \in BOOLEAN :
            GetMetadata(p, path, exchange, zipped, <<>>)
    \/ \E p \in Procs : \E exchange \in Exchanges(p) : \E path \in ObjectNames :
       \E zipped \in BOOLEAN :
            Delete(p, path, exchange, zipped, <<>>)

SpecBucket == InitBucket /\ [][NextBucket]_allVars

\* ------------------------------------------------------------------ claims
CachePath == CachedTokenPath(Account)

\* request_token() of p has come back to its caller
Done(p) == pc[p] = "idle" /\ result[p].op = "request_token"

\* p itself takes the step (a step of another process leaves all of these)
Moves(p) ==
    <<provider[p], cached_token[p], pc[p], result[p], call[p]>>
        # <<provider'[p], cached_token'[p], pc'[p], result'[p], call'[p]>>

\* the step is a constructor call of p
ConstructStep(p) ==
    Moves(p) /\ result'[p].op = "from_service_account_json"

\* the step is p entering request_token()
EnterStep(p) ==
    Moves(p) /\ pc[p] = "idle" /\ result'[p].op # "from_service_account_json"

\* C1: a call that finds a cached token whose expires_at is more than 3
\* seconds after the current time returns exactly that token and makes no
\* token exchange.
C1_FreshTokenServedWithoutExchange ==
    \A p \in Procs :
        (Done(p) /\ call[p].fresh0 # None) =>
            /\ result[p] = Returned("request_token", call[p].fresh0)
            /\ cached_token[p] = call[p].fresh0
            /\ call[p].exch = 0

C1_Witness ==
    \E p \in Procs :
        /\ Done(p)
        /\ call[p].fresh0 # None
        /\ result[p].kind = "return"
        /\ call[p].fresh0["expires_at"] > now + 3

\* the call found no cached token, or one whose expires_at was within the
\* margin or past (a cached record without expires_at is neither)
FoundStale(p) ==
    /\ call[p].fresh0 = None
    /\ ~(call[p].exch = 0 /\ result[p] = Raised("request_token", "KeyError"))

\* the exchange of the call succeeded: a response with a lifetime arrived
ExchangeSucceeded(p) == call[p].tExch >= 0

\* C2 as stated: a call that finds no token or a stale one and whose
\* exchange succeeds makes exactly one exchange and returns a token with
\* expires_at = now + expires_in.
C2_StaleTokenRefreshedAndReturned ==
    \A p \in Procs :
        (Done(p) /\ FoundStale(p) /\ ExchangeSucceeded(p)) =>
            /\ call[p].exch = 1
            /\ result[p].kind = "return"
            /\ result[p].val["expires_at"]
                 = call[p].tExch + result[p].val["expires_in"]

\* C2 amended: such a call makes exactly one exchange; it returns the token
\* with expires_at = (clock when the response is processed) + expires_in
\* when the cache write succeeds too, and raises the write's error
\* otherwise. A call that finds no token or a stale one never returns
\* without an exchange.
C2_StaleTokenRefreshedOnce ==
    \A p \in Procs :
        /\ (Done(p) /\ FoundStale(p)) => call[p].exch = 1
        /\ (Done(p) /\ FoundStale(p) /\ ExchangeSucceeded(p)) =>
              \/ /\ result[p].kind = "return"
                 /\ result[p].val = cached_token[p]
                 /\ result[p].val["expires_at"]
                      = call[p].tExch + result[p].val["expires_in"]
              \/ result[p] = Raised("request_token", "OSError")

C2_Witness ==
    \E p \in Procs :
        /\ Done(p) /\ FoundStale(p) /\ ExchangeSucceeded(p)
        /\ result[p].kind = "return"
        /\ call[p].tExch > 0

\* the cache file holds a complete token record
HoldsToken(file) == file.exists /\ JsonValid(file.data)

InRefresh == {"exchange", "dump", "flush", "fsync", "replace"}

\* C3: while the cache file holds a token, no step of a refresh other than
\* its final successful replace touches the file: whichever step of the
\* persistence sequence fails, the call raises with the file still there
\* and its content exactly the prior one.
C3_FailedRefreshKeepsCacheFile ==
    [][\A p \in Procs :
         ( /\ pc[p] \in InRefresh
           /\ Moves(p)
           /\ result'[p].kind # "return"
           /\ HoldsToken(fs[CachePath]) )
         => /\ fs'[CachePath] = fs[CachePath]
            /\ (pc'[p] = "idle" => result'[p].kind = "raise")]_vars

C3_Witness ==
    \E p \in Procs :
        /\ Done(p)
        /\ result[p] = Raised("request_token", "OSError")
        /\ lastReplace.by = 0
        /\ fs[CachePath] = File(JsonDump(StoredToken(5)))

\* C4: with processes refreshing concurrently, the cache file is at every
\* moment either the file found at start or the complete record of the
\* token of exactly one process, the one whose replace ran last.
C4_ConcurrentRefreshLastWriterWins ==
    IF lastReplace.by = 0
    THEN fs[CachePath] \in InitialCacheFiles
    ELSE /\ lastReplace.by \in Procs
         /\ fs[CachePath] = File(JsonDump(lastReplace.tok))
         /\ HoldsToken(fs[CachePath])
         /\ JsonLoad(fs[CachePath].data) = lastReplace.tok
         /\ HasExpiry(lastReplace.tok)

\* two processes refreshed at once: one has replaced the file while the
\* other, holding a different token, is about to
C4_Witness ==
    \E p, q \in Procs :
        /\ p # q
        /\ lastReplace.by = p
        /\ pc[q] = "replace"
        /\ cached_token[q] # lastReplace.tok
        /\ fs[TempFileName(q)] = File(JsonDump(cached_token[q]))

\* C5: constructing a provider over a cache file whose content does not
\* parse does not fail; the provider starts with no cached token.
C5_MalformedCacheFileIsNoToken ==
    [][\A p \in Procs :
         ( /\ ConstructStep(p)
           /\ fs[CachePath].exists
           /\ ~JsonValid(fs[CachePath].data)
           /\ result'[p].exc # "TypeError" )
         => /\ result'[p].kind = "return"
            /\ pc'[p] = "idle"
            /\ cached_token'[p] = None]_vars

\* C6: every token held in memory, and every token a provider stored in
\* the cache file, carries expires_at.
C6_TokensCarryExpiresAt ==
    /\ \A p \in Procs : cached_token[p] # None => HasExpiry(cached_token[p])
    /\ (lastReplace.by # 0 /\ HoldsToken(fs[CachePath]))
          => HasExpiry(JsonLoad(fs[CachePath].data))

\* C7: when the exchange fails with an HTTP error the call raises that
\* error after one attempt, the cache file is as before, no token is
\* cached, and the next call starts a new exchange.
C7_ExchangeFailurePropagates ==
    [][\A p \in Procs :
         /\ (pc[p] = "exchange" /\ result'[p] = Raised("request_token", "HTTPError"))
               => /\ pc'[p] = "idle"
                  /\ call'[p].exch = 1
                  /\ fs' = fs
                  /\ cached_token'[p] = None
         /\ (EnterStep(p) /\ result[p] = Raised("request_token", "HTTPError"))
               => /\ pc'[p] = "exchange"
                  /\ call'[p].exch = 0]_vars

\* an exchange failed while the cache file held a token
C7_Witness ==
    \E p \in Procs :
        /\ Done(p)
        /\ result[p] = Raised("request_token", "HTTPError")
        /\ cached_token[p] = None
        /\ HoldsToken(fs[CachePath])

\* C8: no temporary file of a call is left once the call is over; a call
\* whose exchange succeeded either returns, its temporary file having
\* become the cache file, or raises the error of the failed step.
C8_NoTemporaryFileLeft ==
    \A p \in Procs :
        /\ pc[p] \in {"none", "idle"} => ~fs[TempFileName(p)].exists
        /\ (Done(p) /\ ExchangeSucceeded(p)) =>
              \/ result[p] = Raised("request_token", "OSError")
              \/ /\ result[p].kind = "return"
                 /\ (lastReplace.by = p =>
                        fs[CachePath] = File(JsonDump(result[p].val)))

C8_Witness ==
    \E p, q \in Procs :
        /\ Done(p) /\ ExchangeSucceeded(p)
        /\ result[p] = Raised("request_token", "OSError")
        /\ Done(q) /\ ExchangeSucceeded(q)
        /\ result[q].kind = "return" /\ lastReplace.by = q

\* C9: a provider constructed after another provider's successful refresh
\* starts with exactly the persisted token, and its first request_token()
\* returns that token without an exchange while expires_at is more than 3
\* seconds ahead; constructed with no cache file it starts with no token.
C9_CrossInvocationReuse ==
    [][\A p \in Procs :
         /\ (ConstructStep(p) /\ result'[p].kind = "return") =>
               /\ pc'[p] = "idle"
               /\ lastReplace.by # 0 => cached_token'[p] = lastReplace.tok
               /\ ~fs[CachePath].exists => cached_token'[p] = None
         /\ ( /\ EnterStep(p)
              /\ result[p].op = "from_service_account_json"
              /\ cached_token[p] # None
              /\ HasExpiry(cached_token[p])
              /\ cached_token[p]["expires_at"] > now + 3 )
            => /\ result'[p] = Returned("request_token", cached_token[p])
               /\ issued' = issued
               /\ pc'[p] = "idle"]_vars

\* q refreshed, then p was constructed and its first call returned q's token
C9_Witness ==
    \E p, q \in Procs :
        /\ p # q
        /\ lastReplace.by = q
        /\ Done(p)
        /\ call[p].exch = 0
        /\ result[p] = Returned("request_token", lastReplace.tok)

\* C10: the credential loader accepts an inline JSON string, a file name
\* and a parsed structure alike, and the provider's account, key, key
\* identifier and token endpoint are those of the input.
C10_LoaderAcceptsAllShapes ==
    \A p \in Procs :
        (result[p].op = "from_service_account_json"
            /\ result[p].exc # "JSONDecodeError") =>
            /\ result[p].kind = "return"
            /\ provider[p] # None
            /\ provider[p].account = ServiceAccount["client_email"]
            /\ provider[p].key = ServiceAccount["private_key"]
            /\ provider[p].kid = ServiceAccount["private_key_id"]
            /\ provider[p].token_url = ServiceAccount["token_uri"]

\* no process other than p has done anything
Alone(p) == \A q \in Procs \ {p} : pc[q] = "none" /\ result[q] = NoResult

\* C16: in a single process, whenever request_token() returns a token the
\* cache file holds exactly that token, whatever calls failed before.
C16_ReturnedTokenIsOnDisk ==
    \A p \in Procs :
        (Alone(p) /\ Done(p) /\ result[p].kind = "return") =>
            fs[CachePath] = File(JsonDump(result[p].val))

\* C17: the temporary file of a refresh lies in the directory of the cache
\* file, and it holds the complete flushed record when the replace runs.
C17_TempFileInCacheDirectory ==
    \A p \in Procs :
        /\ fs[TempFileName(p)].exists =>
              TempFileName(p).dir = CachedTokenPath(provider[p].account).dir
        /\ pc[p] = "replace" =>
              fs[TempFileName(p)] = File(JsonDump(cached_token[p]))

\* C18: the cache file, once it exists, exists ever after, and its content
\* changes only by a replace that installs the complete record of the
\* token of the replacing process.
C18_CacheFileNeverDeleted ==
    [][fs[CachePath].exists =>
         /\ fs'[CachePath].exists
         /\ fs'[CachePath] # fs[CachePath] =>
               /\ HoldsToken(fs'[CachePath])
               /\ HasExpiry(JsonLoad(fs'[CachePath].data))
               /\ \E p \in Procs :
                     /\ pc[p] = "replace"
                     /\ pc'[p] = "idle"
                     /\ fs'[CachePath] = File(JsonDump(cached_token[p]))]_vars

\* the file found at start was superseded, and a later refresh failed
C18_Witness ==
    \E p \in Procs :
        /\ lastReplace.by # 0
        /\ fs[CachePath] # File(JsonDump(StoredToken(5)))
        /\ fs[CachePath].exists
        /\ call[p].tExch > lastReplace.tok["expires_at"] - lastReplace.tok["expires_in"]
        /\ Done(p)
        /\ result[p] = Raised("request_token", "OSError")

\* split a text at its "." characters
RECURSIVE Parts(_)
Parts(text) ==
    IF \A i \in 1..Len(text) : text[i] # "." THEN <<text>>
    ELSE LET i == CHOOSE k \in 1..Len(text) :
                     text[k] = "." /\ \A m \in 1..(k - 1) : text[m] # "."
         IN  <<SubSeq(text, 1, i - 1)>> \o Parts(SubSeq(text, i + 1, Len(text)))

\* C12: the assertion's audience is the token endpoint the request is
\* posted to, its issuer the account, its expiry issued-at plus the
\* configured lifetime.
C12_AudienceIsTokenEndpoint ==
    jwt.by # 0 =>
        /\ jwt.claim.aud = jwt.url
        /\ jwt.url = provider[jwt.by].token_url
        /\ jwt.claim.iss = provider[jwt.by].account
        /\ jwt.claim.exp = jwt.claim.iat + provider[jwt.by].expire

\* C20: the assertion is the signing input, ".", and the encoded
\* signature: three parts, each of url-safe base64 digits with no padding.
C20_ThreeUnpaddedParts ==
    jwt.by # 0 =>
        /\ jwt.assertion = jwt.payload \o <<".">> \o jwt.sig
        /\ Len(Parts(jwt.assertion)) = 3
        /\ \A i \in 1..Len(jwt.assertion) :
              \/ jwt.assertion[i] = "."
              \/ \E d \in 1..Len(UrlsafeAlphabet) : jwt.assertion[i] = UrlsafeAlphabet[d]

\* the bucket operation that ran last sent a storage request
Sent == "url" \in DOMAIN sent

\* C11: a bucket operation calls request_token() first and sends its
\* request only when that call returned; the request carries
\* Authorization = token_type + " " + access_token of the returned token
\* and Accept-Encoding: gzip, identity; and the token is one the call found
\* with its expiry beyond now + 3, or the one it fetched in that call.
C11_RequestCarriesReturnedToken ==
    \A p \in Procs :
        (provider[p] # None /\ reply.op # "none") =>
            /\ result[p].op = "request_token"
            /\ Sent <=> result[p].kind = "return"
            /\ ~Sent => reply.kind = "raise" /\ reply.exc = result[p].exc
            /\ Sent =>
                  LET token == result[p].val
                  IN  /\ sent.headers["Authorization"]
                            = <<token["token_type"], " ", token["access_token"]>>
                      /\ sent.headers["Accept-Encoding"] = "gzip, identity"
                      /\ \/ call[p].exch = 0 /\ token = call[p].fresh0
                         \/ /\ call[p].exch = 1
                            /\ call[p].fresh0 = None
                            /\ token["expires_at"]
                                   = call[p].tExch + token["expires_in"]

C11_Witness ==
    /\ Sent
    /\ reply.op = "get"
    /\ reply.kind = "return"
    /\ call[1].exch = 1
    /\ sent.headers["Authorization"] = <<"Bearer", " ", 2>>

\* the names of the objects the returned put and delete calls left
Existing == {object.name : object \in latest}

\* C13: when get, get_metadata or delete is called on a path that names no
\* existing object and its request is sent, the call raises the HTTP 404
\* error of the transport and returns nothing; nothing is stored or removed.
C13_MissingObjectRaisesNotFound ==
    [][(/\ reply' # reply \/ sent' # sent \/ result' # result
        /\ reply'.op \in {"get", "get_metadata", "delete"}
        /\ "url" \in DOMAIN sent'
        /\ reply'.path \notin Existing)
          => /\ reply'.kind = "raise"
             /\ reply'.exc = "HTTPError"
             /\ reply'.status = 404
             /\ reply'.val = None
             /\ latest' = latest
             /\ objects' = objects]_allVars

C13_Witness ==
    /\ Sent
    /\ reply.op = "delete"
    /\ reply.kind = "raise"
    /\ reply.status = 404
    /\ Cardinality(latest) = 1
    /\ reply.path \notin Existing

\* what get_metadata and list report of an object
Reported(object) ==
    [name |-> object.name, contentType |-> object.contentType,
     size |-> Len(object.data)]

\* C14: once put calls on a path have returned with no delete after them,
\* a get of the path whose request is sent returns exactly the data of the
\* last of them, and a get_metadata its name, content type and size.
C14_GetReturnsLatestPut ==
    (Sent /\ reply.op \in {"get", "get_metadata"} /\ reply.path \in Existing) =>
        LET object == CHOOSE o \in latest : o.name = reply.path
        IN  /\ Cardinality({o \in latest : o.name = reply.path}) = 1
            /\ reply.kind = "return"
            /\ reply.op = "get" => reply.val = object.data
            /\ reply.op = "get_metadata" => reply.val = Reported(object)

C14_Witness ==
    /\ Sent
    /\ reply.op = "get_metadata"
    /\ reply.kind = "return"
    /\ reply.val["size"] = 2
    /\ reply.val["contentType"] = "text/html"
    /\ Cardinality(latest) = 2

\* the records of a parsed listing
Items(listing) ==
    IF "items" \in DOMAIN listing
    THEN {listing["items"][i] : i \in DOMAIN listing["items"]}
    ELSE {}

\* C15: a list(prefix) whose request is sent returns the existing objects
\* (put and not deleted since) whose names start with the prefix, each once
\* with the size and content type of its last put, and no `items` member
\* when there is none.
C15_ListReturnsExistingUnderPrefix ==
    (Sent /\ reply.op = "list") =>
        LET expected == {Reported(o) : o \in {x \in latest : StartsWith(x.name, reply.path)}}
        IN  /\ reply.kind = "return"
            /\ Items(reply.val) = expected
            /\ "items" \in DOMAIN reply.val <=> expected # {}
            /\ "items" \in DOMAIN reply.val =>
                  Len(reply.val["items"]) = Cardinality(expected)

C15_Witness ==
    /\ Sent
    /\ reply.op = "list"
    /\ reply.path = <<"d", "/">>
    /\ reply.kind = "return"
    /\ Cardinality(Items(reply.val)) = 1
    /\ Cardinality(latest) = 2

\* the characters a path segment may hold as they are
Hex == {"0", "2", "5", "B", "F"}

\* C19: the URL of get, get_metadata and delete holds the object name as
\* one segment in which "/", like every character that is not always safe,
\* is percent-escaped; the segment decodes to the name, and different names
\* give different URLs.
C19_PathIsOneEscapedSegment ==
    /\ (Sent /\ reply.op \in {"get", "get_metadata", "delete"}) =>
          LET segment == sent.url.object
          IN  /\ segment # <<>>
              /\ \A i \in DOMAIN segment :
                    /\ segment[i] \notin {"/", " ", "+"}
                    /\ segment[i] = "%" =>
                          /\ i + 2 <= Len(segment)
                          /\ segment[i + 1] \in Hex
                          /\ segment[i + 2] \in Hex
              /\ Unquote(segment) = reply.path
              /\ sent.url.bucket = BucketName
    /\ \A a, b \in ObjectNames :
          a # b => GetUrl(a) # GetUrl(b) /\ ObjectUrl(a) # ObjectUrl(b)

C19_Witness ==
    /\ Sent
    /\ reply.op = "get"
    /\ reply.path = <<"d", "/", " ", "+">>
    /\ sent.url.object = <<"d", "%", "2", "F", "%", "2", "0", "%", "2", "B">>
    /\ reply.kind = "return"

====
